---- MODULE Spec2Model ----
(***************************************************************************)
(* Local Food Wastage Management System (src/app.py).                      *)
(*                                                                         *)
(* The relational store (providers, receivers, food_listings, claims),     *)
(* the memoized read fetch_df, the write run_write, the nine CRUD handlers *)
(* of the "CRUD" tab and the sidebar filter predicate builder.             *)
(*                                                                         *)
(* Dates are day numbers (day 0 is an arbitrary calendar date) and the     *)
(* wall clock is a number of seconds since midnight of day 0.  A table is  *)
(* the set of its rows; a data frame is the set of the rows a query        *)
(* returns.  Where the code takes "the first row" of a frame whose order   *)
(* SQL leaves open among equal sort keys, the model chooses any of them.   *)
(***************************************************************************)
EXTENDS Integers, Sequences, FiniteSets, TLC

VARIABLES
    providers,      \* rows of table providers
    receivers,      \* rows of table receivers (never written by the app)
    food_listings,  \* rows of table food_listings
    claims,         \* rows of table claims
    cache,          \* st.cache_data entries of fetch_df: [key, df, at]
    clock,          \* wall clock, seconds
    sidebar,        \* the four multiselect widgets of the sidebar
    view,           \* what the dashboard last built and showed
    last            \* the most recent operation and what it reported

vars == <<providers, receivers, food_listings, claims, cache, clock,
          sidebar, view, last>>

store == <<providers, receivers, food_listings, claims>>

-----------------------------------------------------------------------------
(* Bounds of the model *)

MaxProviders == 2       \* largest Provider_ID the store hands out
MaxFood == 2            \* largest Food_ID the store hands out
MaxClaims == 2          \* largest Claim_ID the store hands out
MaxReceivers == 1       \* receivers present in the store
MaxTicks == 2           \* clock ticks taken after the start instant
MaxSessionRows == 1     \* largest key of a table in the session with reads
MaxFilterRows == 2      \* listings in a store the dashboard filters
MaxRateRows == 2        \* largest key of a table query 10 is run on
MaxExpiringRows == 2    \* listings in a store the expiry KPI counts

(* Program constants *)

TTL == 60               \* @st.cache_data(ttl=60), seconds
SmallBelow == 5         \* qty < 5 is "Small"
MediumUpTo == 20        \* qty <= 20 is "Medium"
MinQuantity == 1        \* st.number_input("Quantity", min_value=1)
MinNewQuantity == 0     \* st.number_input("New Quantity", min_value=0)
SecondsPerDay == 86400  \* one day of a Timedelta
WindowDays == 3         \* (julianday(Expiry_Date)-julianday('now')) <= 3
TickStep == 30          \* seconds between two looks at the clock

(* sqlite3.connect() leaves PRAGMA foreign_keys at its default, OFF, and
   get_conn never turns it on: the connection enforces no foreign key. *)
foreign_keys == FALSE

-----------------------------------------------------------------------------
(* Small helpers *)

RECURSIVE SumSeq(_)
SumSeq(s) == IF s = <<>> THEN 0 ELSE Head(s) + SumSeq(Tail(s))

Range(s) == {s[i] : i \in 1..Len(s)}

(* The key the store assigns to an inserted row (cur.lastrowid): an unused
   integer larger than every key now in the table.  A rowid table hands out
   max+1, so the key of a deleted last row is handed out again; an
   AUTOINCREMENT table never reuses one. Both are among the choices. *)
NewIds(used, max) == {i \in 1..max : \A j \in used : i > j}

ProviderIds == {p.Provider_ID : p \in providers}
FoodIds == {f.Food_ID : f \in food_listings}
ClaimIds == {c.Claim_ID : c \in claims}
ReceiverIds == {r.Receiver_ID : r \in receivers}

(* A bound SQL parameter: sqlite3 binds an int as INTEGER, a str as TEXT. *)
IntParam(n) == [i |-> n, s |-> ""]
TextParam(x) == [i |-> 0, s |-> x]

-----------------------------------------------------------------------------
(* SQL texts the handlers and the query browser pass to fetch_df *)

SQL_PROVS == "SELECT Provider_ID, Name FROM providers ORDER BY Name"
SQL_UNCLAIMED == "SELECT f.Food_ID, f.Food_Name, f.Location, f.Quantity, f.Expiry_Date FROM food_listings f LEFT JOIN claims c ON f.Food_ID = c.Food_ID WHERE c.Claim_ID IS NULL ORDER BY f.Expiry_Date"
SQL_RECS == "SELECT Receiver_ID, Name FROM receivers ORDER BY Name"
SQL_PROVS_CONTACT == "SELECT Provider_ID, Name, Contact FROM providers ORDER BY Name"
SQL_FOODS_QTY == "SELECT Food_ID, Food_Name, Quantity FROM food_listings ORDER BY Food_ID DESC"
SQL_CLS_JOIN == "SELECT c.Claim_ID, c.Status, f.Food_Name, r.Name AS Receiver FROM claims c JOIN food_listings f ON c.Food_ID = f.Food_ID JOIN receivers r ON c.Receiver_ID = r.Receiver_ID ORDER BY c.Claim_ID DESC"
SQL_FOODS == "SELECT Food_ID, Food_Name FROM food_listings ORDER BY Food_ID DESC"
SQL_CLS == "SELECT Claim_ID FROM claims ORDER BY Claim_ID DESC"
SQL_Q9 == "SELECT f.Food_ID, f.Food_Name, f.Quantity, f.Expiry_Date, f.Location, f.Food_Type, f.Meal_Type FROM food_listings f LEFT JOIN claims c ON f.Food_ID = c.Food_ID WHERE c.Claim_ID IS NULL ORDER BY f.Expiry_Date"
SQL_FOOD_DF == "SELECT * FROM food_listings {WHERE} ORDER BY Expiry_Date"
SQL_EXPIRING_3 == "SELECT COUNT(*) AS n FROM food_listings {WHERE} (julianday(Expiry_Date)-julianday('now')) <= 3"
SQL_Q10 == "SELECT p.Name, ROUND(100.0 * SUM(CASE WHEN c.Status='Completed' THEN 1 ELSE 0 END) / NULLIF(COUNT(DISTINCT f.Food_ID),0), 2) AS Fulfillment_Rate FROM providers p JOIN food_listings f ON p.Provider_ID = f.Provider_ID LEFT JOIN claims c ON f.Food_ID = c.Food_ID GROUP BY p.Provider_ID, p.Name ORDER BY Fulfillment_Rate DESC"

-----------------------------------------------------------------------------
(* The relational engine: joins and the evaluation of the modelled queries *)

NullClaim == [Claim_ID |-> 0, Food_ID |-> 0, Receiver_ID |-> 0, Status |-> "NULL"]

(* food_listings f LEFT JOIN claims c ON f.Food_ID = c.Food_ID: one pair per
   matching claim, and one pair with an all-NULL claim for a listing that
   matches none. *)
LeftJoinClaims(foods, cls) ==
    {j \in foods \X cls : j[1].Food_ID = j[2].Food_ID}
    \cup {<<f, NullClaim>> : f \in {g \in foods :
                                      \A x \in cls : x.Food_ID # g.Food_ID}}

(* A join that matches only the claims still active, so that a listing whose
   claims are all cancelled counts as unclaimed. *)
UnclaimedRowsActiveOnly(foods, cls) ==
    {f \in foods : \A x \in cls : x.Food_ID = f.Food_ID => x.Status = "Cancelled"}

(* ... WHERE c.Claim_ID IS NULL *)
UnclaimedRows(foods, cls) ==
    {j[1] : j \in {k \in LeftJoinClaims(foods, cls) : k[2].Claim_ID = 0}}

(* The value of a food_listings column as the engine compares it with a
   bound parameter. *)
ColumnValue(row, col) ==
    IF col = "Provider_ID" THEN IntParam(row[col]) ELSE TextParam(row[col])

(* The tokens of a predicate text: the keyword WHERE, the connective AND and
   "col IN (?,...,?)" with n placeholders. *)
TokWhere == [t |-> "WHERE", col |-> "", n |-> 0]
TokAnd == [t |-> "AND", col |-> "", n |-> 0]
TokIn(col, n) == [t |-> "IN", col |-> col, n |-> n]
(* "(julianday(Expiry_Date)-julianday('now')) <= 3" *)
TokWindow == [t |-> "WINDOW", col |-> "Expiry_Date", n |-> 0]

InTokens(text) == SelectSeq(text, LAMBDA tok : tok.t = "IN")

(* Placeholders are bound left to right: the k-th IN list takes the next n
   parameters after those of the IN lists before it. *)
Offset(ins, k) == SumSeq([j \in 1..(k - 1) |-> ins[j].n])

BoundValues(ins, params, k) ==
    {params[Offset(ins, k) + j] : j \in 1..ins[k].n}

(* A row passes the predicate text when it passes every IN list of it; the
   empty text lets every row pass. *)
RowPasses(text, params, row) ==
    LET ins == InTokens(text)
    IN  \A k \in 1..Len(ins) :
            ColumnValue(row, ins[k].col) \in BoundValues(ins, params, k)

(* What the statement parser accepts after the table name: nothing, or WHERE
   followed by conditions with AND between them. *)
WellFormed(text) ==
    \/ text = <<>>
    \/ /\ Len(text) % 2 = 0
       /\ \A i \in 1..Len(text) :
             IF i = 1 THEN text[i] = TokWhere
             ELSE IF i % 2 = 1 THEN text[i] = TokAnd
             ELSE text[i].t \in {"IN", "WINDOW"}

(* Every placeholder of the text takes one supplied parameter *)
BindingsMatch(text, params) ==
    LET ins == InTokens(text)
    IN  SumSeq([k \in 1..Len(ins) |-> ins[k].n]) = Len(params)

(* The frame of a statement the engine rejects: pd.read_sql_query raises *)
OperationalError == {[error |-> "sqlite3.OperationalError"]}

(* julianday(Expiry_Date) - julianday('now') <= 3 for the rows of a text
   that holds the condition: midnight of the expiry date against the
   instant of the read, in days. *)
WindowPasses(text, row, now) ==
    (\E i \in 1..Len(text) : text[i] = TokWindow) =>
        row.Expiry_Date * SecondsPerDay - now <= WindowDays * SecondsPerDay

(* A nullable number of the engine.  A rate is held in hundredths of a
   percent, the two decimals ROUND(..., 2) keeps. *)
Null == [null |-> TRUE, x |-> 0]
Num(x) == [null |-> FALSE, x |-> x]

(* NULLIF(a, b): NULL when the two are equal, a otherwise *)
SqlNullIf(a, b) == IF a = b THEN Null ELSE Num(a)

(* ROUND(100.0 * num / den, 2) for num >= 0 and den > 0, in hundredths:
   the quotient rounded to the nearest hundredth, a half rounded up. *)
Round2(num, den) == (2 * 100 * 100 * num + den) \div (2 * den)

(* 100.0 * completed / NULLIF(listings, 0), rounded: a NULL divisor gives a
   NULL quotient, and so does a zero divisor in this engine; neither raises. *)
FulfillmentRate(completed, listings) ==
    LET den == SqlNullIf(listings, 0)
    IN  IF den.null \/ den.x = 0 THEN Null ELSE Num(Round2(completed, den.x))

(* providers p JOIN food_listings f ON p.Provider_ID = f.Provider_ID
   LEFT JOIN claims c ON f.Food_ID = c.Food_ID: triples <<p, f, c>>. *)
ProviderFoodClaims(provs, foods, cls) ==
    {<<j[1], j[2][1], j[2][2]>> :
        j \in {k \in provs \X LeftJoinClaims(foods, cls) :
                    k[1].Provider_ID = k[2][1].Provider_ID}}

(* A sum that counts every joined claim, whatever its status *)
CompletedCountAnyStatus(group) ==
    Cardinality({j \in group : j[3].Claim_ID # 0})

(* SUM(CASE WHEN c.Status='Completed' THEN 1 ELSE 0 END) over a group *)
CompletedCount(group) ==
    Cardinality({j \in group : j[3].Status = "Completed"})

(* COUNT(DISTINCT f.Food_ID) over a group *)
DistinctFoodCount(group) == Cardinality({j[2].Food_ID : j \in group})

(* GROUP BY p.Provider_ID, p.Name: one row per provider that occurs in the
   join.  The row keeps its group key Provider_ID, which the SELECT list does
   not show, so that two providers of one name stay two rows. *)
FulfillmentRows(provs, foods, cls) ==
    LET joined == ProviderFoodClaims(provs, foods, cls)
        Group(p) == {j \in joined : j[1] = p}
    IN  {[Provider_ID |-> p.Provider_ID, Name |-> p.Name,
          Fulfillment_Rate |->
              FulfillmentRate(CompletedCount(Group(p)),
                              DistinctFoodCount(Group(p)))]
            : p \in {j[1] : j \in joined}}

EvalQuery(sql, where, params) ==
    CASE sql = SQL_PROVS ->
            {[Provider_ID |-> p.Provider_ID, Name |-> p.Name] : p \in providers}
      [] sql = SQL_PROVS_CONTACT ->
            {[Provider_ID |-> p.Provider_ID, Name |-> p.Name,
              Contact |-> p.Contact] : p \in providers}
      [] sql = SQL_RECS ->
            {[Receiver_ID |-> r.Receiver_ID, Name |-> r.Name] : r \in receivers}
      [] sql = SQL_UNCLAIMED ->
            {[Food_ID |-> f.Food_ID, Food_Name |-> f.Food_Name,
              Location |-> f.Location, Quantity |-> f.Quantity,
              Expiry_Date |-> f.Expiry_Date]
                : f \in UnclaimedRows(food_listings, claims)}
      [] sql = SQL_Q9 ->
            {[Food_ID |-> f.Food_ID, Food_Name |-> f.Food_Name,
              Quantity |-> f.Quantity, Expiry_Date |-> f.Expiry_Date,
              Location |-> f.Location, Food_Type |-> f.Food_Type,
              Meal_Type |-> f.Meal_Type]
                : f \in UnclaimedRows(food_listings, claims)}
      [] sql = SQL_FOODS_QTY ->
            {[Food_ID |-> f.Food_ID, Food_Name |-> f.Food_Name,
              Quantity |-> f.Quantity] : f \in food_listings}
      [] sql = SQL_FOODS ->
            {[Food_ID |-> f.Food_ID, Food_Name |-> f.Food_Name]
                : f \in food_listings}
      [] sql = SQL_CLS ->
            {[Claim_ID |-> c.Claim_ID] : c \in claims}
      [] sql = SQL_CLS_JOIN ->
            {[Claim_ID |-> j[1].Claim_ID, Status |-> j[1].Status,
              Food_Name |-> j[2].Food_Name, Receiver |-> j[3].Name]
                : j \in {k \in claims \X food_listings \X receivers :
                            /\ k[1].Food_ID = k[2].Food_ID
                            /\ k[1].Receiver_ID = k[3].Receiver_ID}}
      [] sql = SQL_FOOD_DF ->
            {f \in food_listings : RowPasses(where, params, f)}
      [] sql = SQL_EXPIRING_3 ->
            IF WellFormed(where) /\ BindingsMatch(where, params)
            THEN {[n |-> Cardinality({f \in food_listings :
                                        /\ RowPasses(where, params, f)
                                        /\ WindowPasses(where, f, clock)})]}
            ELSE OperationalError
      [] sql = SQL_Q10 ->
            FulfillmentRows(providers, food_listings, claims)

-----------------------------------------------------------------------------
(* Data access layer: fetch_df (memoized for TTL seconds) and run_write *)

QueryKey(sql, where, params) == [sql |-> sql, where |-> where, params |-> params]

FixedKey(sql) == QueryKey(sql, <<>>, <<>>)

(* The live entry of a key, if any: memoized less than TTL seconds ago. *)
LiveEntries(c, key, now) == {e \in c : e.key = key /\ now - e.at < TTL}

(* fetch_df: the frame returned, the time it was memoized, and the cache
   afterwards.  A live entry is returned as it is; otherwise the query runs
   on the store and its result replaces any expired entry of the key. *)
fetch_df(c, key, now) ==
    IF LiveEntries(c, key, now) # {}
    THEN LET e == CHOOSE x \in LiveEntries(c, key, now) : TRUE
         IN  [df |-> e.df, at |-> e.at, hit |-> TRUE, cache |-> c]
    ELSE LET df == EvalQuery(key.sql, key.where, key.params)
         IN  [df |-> df, at |-> now, hit |-> FALSE,
              cache |-> {e \in c : e.key # key}
                        \cup {[key |-> key, df |-> df, at |-> now]}]

(* A handler that forgets st.cache_data.clear(): the entries stay. *)
cache_clear_forgotten(c) == c

(* st.cache_data.clear(): every memoized entry goes. *)
cache_clear(c) == {}

-----------------------------------------------------------------------------
(* Record management layer: derived fields, validation, widget plumbing *)

(* The buckets with the lower threshold read as inclusive: 5 is "Small" *)
QuantityCategoryInclusive(qty) ==
    IF qty <= SmallBelow THEN "Small"
    ELSE IF qty <= MediumUpTo THEN "Medium" ELSE "Large"

(* qty_cat = "Small" if qty < 5 else ("Medium" if qty <= 20 else "Large") *)
QuantityCategory(qty) ==
    IF qty < SmallBelow THEN "Small"
    ELSE IF qty <= MediumUpTo THEN "Medium" ELSE "Large"

(* date.today() and pd.Timestamp.today() at wall-clock instant now *)
Today(now) == now \div SecondsPerDay

(* (pd.to_datetime(exp) - pd.Timestamp.today()).days: midnight of the expiry
   date minus the current timestamp, time of day included; .days of a
   Timedelta is the floor of the difference in days. *)
DaysToExpiry(exp, now) == (exp * SecondsPerDay - now) \div SecondsPerDay

(* if name and city *)
ProviderValid(name, city) == name # "" /\ city # ""

(* The check without the location *)
FoodValidNoLocation(provider_id, food_name, location) ==
    provider_id # 0 /\ food_name # ""

(* if provider_id and food_name and location (None is modelled as 0) *)
FoodValid(provider_id, food_name, location) ==
    provider_id # 0 /\ food_name # "" /\ location # ""

(* if food_id and receiver_id *)
ClaimValid(food_id, receiver_id) == food_id # 0 /\ receiver_id # 0

(* st.selectbox over df["Name"].tolist(): any name of the frame *)
NameOptions(df) == {r.Name : r \in df}

(* int(df[df["Name"] == name][idcol].iloc[0]): the key of the first row of
   that name. *)
ResolveByName(df, name, idcol) == {r[idcol] : r \in {x \in df : x.Name = name}}

(* The selectbox label "#{Food_ID} -- {Food_Name} ..." of a row and the key
   int(label.split("--")[0].replace("#","").strip()) read back from it. *)
RowLabel(r, idcol) == <<"#", r[idcol], " -- ", r.Food_Name>>
LabelId(label) == label[2]

(* DELETE FROM providers WHERE Provider_ID = pid is refused by the engine
   only when foreign keys are enforced and a listing references the row. *)
ProviderDeleteRefused(pid) ==
    foreign_keys /\ \E f \in food_listings : f.Provider_ID = pid

(* The engine with the claims' foreign key enforced *)
FoodDeleteRefusedEnforced(fid) == \E c \in claims : c.Food_ID = fid

FoodDeleteRefused(fid) ==
    foreign_keys /\ \E c \in claims : c.Food_ID = fid

(* What an operation reported to the user *)
Report(op, outcome, id, arg) ==
    [op |-> op, outcome |-> outcome, id |-> id, arg |-> arg, dropped |-> {}]

(* The report of a committed write, with the entries its cache clear dropped *)
Wrote(dropped, op, outcome, id, arg) ==
    [op |-> op, outcome |-> outcome, id |-> id, arg |-> arg,
     dropped |-> dropped]

NoArg == [none |-> TRUE]

-----------------------------------------------------------------------------
(* CRUD tab, "Add" *)

(* add_provider submit handler *)
AddProvider(in) ==
    \E name \in in.name, ptype \in in.ptype, address \in in.address,
       city \in in.city, contact \in in.contact :
        IF ProviderValid(name, city)
        THEN \E id \in NewIds(ProviderIds, in.max_providers) :
                /\ providers' = providers \cup
                      {[Provider_ID |-> id, Name |-> name, Type |-> ptype,
                        Address |-> address, City |-> city,
                        Contact |-> contact]}
                /\ cache' = cache_clear(cache)
                /\ last' = Wrote(cache, "AddProvider", "success", id,
                                  [name |-> name, city |-> city])
                /\ UNCHANGED <<receivers, food_listings, claims, clock,
                               sidebar, view>>
        ELSE /\ last' = Report("AddProvider", "error", 0,
                               [name |-> name, city |-> city])
             /\ UNCHANGED <<store, cache, clock, sidebar, view>>

(* add_food: the provider selectbox fed by fetch_df, then the submit handler *)
AddFoodListing(in) ==
    LET provs == fetch_df(cache, FixedKey(SQL_PROVS), clock)
    IN  \E provider \in (IF provs.df = {} THEN {""} ELSE NameOptions(provs.df)),
           food_name \in in.food_name, qty \in in.qty, d \in in.exp,
           provider_type \in in.provider_type, location \in in.location,
           ftype \in in.ftype, mtype \in in.mtype :
        \E provider_id \in (IF provs.df = {} THEN {0}
                            ELSE ResolveByName(provs.df, provider, "Provider_ID")) :
            LET exp == Today(clock) + d
                arg == [qty |-> qty, exp |-> exp, now |-> clock,
                        provider_id |-> provider_id, food_name |-> food_name,
                        location |-> location]
            IN  /\ qty >= MinQuantity
                /\ IF FoodValid(provider_id, food_name, location)
                   THEN \E id \in NewIds(FoodIds, in.max_food) :
                          /\ food_listings' = food_listings \cup
                               {[Food_ID |-> id, Food_Name |-> food_name,
                                 Quantity |-> qty, Expiry_Date |-> exp,
                                 Provider_ID |-> provider_id,
                                 Provider_Type |-> provider_type,
                                 Location |-> location, Food_Type |-> ftype,
                                 Meal_Type |-> mtype,
                                 Days_To_Expiry |-> DaysToExpiry(exp, clock),
                                 Quantity_Category |-> QuantityCategory(qty)]}
                          /\ cache' = cache_clear(provs.cache)
                          /\ last' = Wrote(provs.cache, "AddFood", "success", id, arg)
                          /\ UNCHANGED <<providers, receivers, claims, clock,
                                         sidebar, view>>
                   ELSE /\ cache' = provs.cache
                        /\ last' = Report("AddFood", "error", 0, arg)
                        /\ UNCHANGED <<store, clock, sidebar, view>>

(* add_claim: the eligible listings and the receivers fed by fetch_df, then
   the submit handler *)
AddClaim(in) ==
    LET unclaimed == fetch_df(cache, FixedKey(SQL_UNCLAIMED), clock)
        recs == fetch_df(unclaimed.cache, FixedKey(SQL_RECS), clock)
    IN  \E food_select \in (IF unclaimed.df = {} THEN {<<"#", 0, "", "">>}
                            ELSE {RowLabel(r, "Food_ID") : r \in unclaimed.df}),
           receiver \in (IF recs.df = {} THEN {""} ELSE NameOptions(recs.df)),
           status \in in.status :
        \E receiver_id \in (IF recs.df = {} THEN {0}
                            ELSE ResolveByName(recs.df, receiver, "Receiver_ID")) :
            LET food_id == IF unclaimed.df = {} THEN 0 ELSE LabelId(food_select)
                arg == [food_id |-> food_id, receiver_id |-> receiver_id,
                        status |-> status]
            IN  IF ClaimValid(food_id, receiver_id)
                THEN \E id \in NewIds(ClaimIds, in.max_claims) :
                       /\ claims' = claims \cup
                            {[Claim_ID |-> id, Food_ID |-> food_id,
                              Receiver_ID |-> receiver_id, Status |-> status]}
                       /\ cache' = cache_clear(recs.cache)
                       /\ last' = Wrote(recs.cache, "AddClaim", "success", id, arg)
                       /\ UNCHANGED <<providers, receivers, food_listings,
                                      clock, sidebar, view>>
                ELSE /\ cache' = recs.cache
                     /\ last' = Report("AddClaim", "error", 0, arg)
                     /\ UNCHANGED <<store, clock, sidebar, view>>

-----------------------------------------------------------------------------
(* CRUD tab, "Update" *)

(* UPDATE providers SET Contact=? WHERE Provider_ID=? *)
SetContact(rows, pid, new) ==
    {IF p.Provider_ID = pid THEN [p EXCEPT !.Contact = new] ELSE p : p \in rows}

(* An update that also recomputes the size bucket *)
SetQuantityRebucket(rows, fid, new_qty) ==
    {IF f.Food_ID = fid
     THEN [f EXCEPT !.Quantity = new_qty,
                    !.Quantity_Category = QuantityCategory(new_qty)]
     ELSE f : f \in rows}

(* UPDATE food_listings SET Quantity=? WHERE Food_ID=? *)
SetQuantity(rows, fid, new_qty) ==
    {IF f.Food_ID = fid THEN [f EXCEPT !.Quantity = new_qty] ELSE f : f \in rows}

(* UPDATE claims SET Status=? WHERE Claim_ID=? *)
SetStatus(rows, claim_id, new_status) ==
    {IF c.Claim_ID = claim_id THEN [c EXCEPT !.Status = new_status] ELSE c
        : c \in rows}

(* Update Provider Contact: offered when the providers frame is not empty *)
UpdateContact(in) ==
    LET provs == fetch_df(cache, FixedKey(SQL_PROVS_CONTACT), clock)
    IN  /\ provs.df # {}
        /\ \E sel \in NameOptions(provs.df), new \in in.new_contact :
           \E pid \in ResolveByName(provs.df, sel, "Provider_ID") :
              /\ providers' = SetContact(providers, pid, new)
              /\ cache' = cache_clear(provs.cache)
              /\ last' = Wrote(provs.cache, "UpdateContact", "success", pid, [new |-> new])
              /\ UNCHANGED <<receivers, food_listings, claims, clock,
                             sidebar, view>>

(* Update Food Quantity: offered when the listings frame is not empty *)
UpdateQuantity(in) ==
    LET foods == fetch_df(cache, FixedKey(SQL_FOODS_QTY), clock)
    IN  /\ foods.df # {}
        /\ \E choice \in {RowLabel(r, "Food_ID") : r \in foods.df},
              new_qty \in in.new_qty :
              LET fid == LabelId(choice)
              IN  /\ new_qty >= MinNewQuantity
                  /\ food_listings' = SetQuantity(food_listings, fid, new_qty)
                  /\ cache' = cache_clear(foods.cache)
                  /\ last' = Wrote(foods.cache, "UpdateQuantity", "success", fid,
                                    [new |-> new_qty])
                  /\ UNCHANGED <<providers, receivers, claims, clock,
                                 sidebar, view>>

(* Update Claim Status: offered when the joined claims frame is not empty *)
UpdateStatus(in) ==
    LET cls == fetch_df(cache, FixedKey(SQL_CLS_JOIN), clock)
    IN  /\ cls.df # {}
        /\ \E sel \in {RowLabel(r, "Claim_ID") : r \in cls.df},
              new_status \in in.new_status :
              LET claim_id == LabelId(sel)
              IN  /\ claims' = SetStatus(claims, claim_id, new_status)
                  /\ cache' = cache_clear(cls.cache)
                  /\ last' = Wrote(cls.cache, "UpdateStatus", "success", claim_id,
                                    [new |-> new_status])
                  /\ UNCHANGED <<providers, receivers, food_listings, clock,
                                 sidebar, view>>

-----------------------------------------------------------------------------
(* CRUD tab, "Delete" *)

(* DELETE FROM providers WHERE Provider_ID=? *)
RemoveProvider(rows, pid) == {p \in rows : p.Provider_ID # pid}

(* DELETE FROM food_listings WHERE Food_ID=? *)
RemoveFood(rows, fid) == {f \in rows : f.Food_ID # fid}

(* DELETE FROM claims WHERE Claim_ID=? *)
RemoveClaim(rows, cid) == {c \in rows : c.Claim_ID # cid}

(* Delete Provider: try run_write, report the exception if the engine
   refuses the statement *)
DeleteProvider ==
    LET provs == fetch_df(cache, FixedKey(SQL_PROVS), clock)
    IN  /\ provs.df # {}
        /\ \E sel \in NameOptions(provs.df) :
           \E pid \in ResolveByName(provs.df, sel, "Provider_ID") :
              LET arg == [listings |-> {f \in food_listings :
                                            f.Provider_ID = pid}]
              IN  IF ProviderDeleteRefused(pid)
                  THEN /\ cache' = provs.cache
                       /\ last' = Report("DeleteProvider", "error", pid, arg)
                       /\ UNCHANGED <<store, clock, sidebar, view>>
                  ELSE /\ providers' = RemoveProvider(providers, pid)
                       /\ cache' = cache_clear(provs.cache)
                       /\ last' = Wrote(provs.cache, "DeleteProvider", "success", pid, arg)
                       /\ UNCHANGED <<receivers, food_listings, claims, clock,
                                      sidebar, view>>

(* Delete Food Listing *)
DeleteFoodListing ==
    LET foods == fetch_df(cache, FixedKey(SQL_FOODS), clock)
    IN  /\ foods.df # {}
        /\ \E sel \in {RowLabel(r, "Food_ID") : r \in foods.df} :
              LET fid == LabelId(sel)
              IN  IF FoodDeleteRefused(fid)
                  THEN /\ cache' = foods.cache
                       /\ last' = Report("DeleteFood", "error", fid, NoArg)
                       /\ UNCHANGED <<store, clock, sidebar, view>>
                  ELSE /\ food_listings' = RemoveFood(food_listings, fid)
                       /\ cache' = cache_clear(foods.cache)
                       /\ last' = Wrote(foods.cache, "DeleteFood", "success", fid, NoArg)
                       /\ UNCHANGED <<providers, receivers, claims, clock,
                                      sidebar, view>>

(* Delete Claim *)
DeleteClaim ==
    LET cls == fetch_df(cache, FixedKey(SQL_CLS), clock)
    IN  /\ cls.df # {}
        /\ \E cid \in {r.Claim_ID : r \in cls.df} :
              /\ claims' = RemoveClaim(claims, cid)
              /\ cache' = cache_clear(cls.cache)
              /\ last' = Wrote(cls.cache, "DeleteClaim", "success", cid, NoArg)
              /\ UNCHANGED <<providers, receivers, food_listings, clock,
                             sidebar, view>>

-----------------------------------------------------------------------------
(* Sidebar filters and the dashboard's base view *)

(* The provider names of the model in the order ORDER BY Name gives them *)
NameOrder == <<"Acme Grocers", "Bread Basket">>

NameRank(name) == CHOOSE i \in 1..Len(NameOrder) : NameOrder[i] = name

(* The rows of the provider frame in its order: by name, equal names in key
   order. *)
RECURSIVE ProviderRows(_)
ProviderRows(df) ==
    IF df = {} THEN <<>>
    ELSE LET first == CHOOSE r \in df : \A x \in df :
                        \/ NameRank(r.Name) < NameRank(x.Name)
                        \/ /\ NameRank(r.Name) = NameRank(x.Name)
                           /\ r.Provider_ID <= x.Provider_ID
         IN  <<first>> \o ProviderRows(df \ {first})

(* The keys of the whole provider frame, the name mask left out *)
ProvIdsUnmasked(provider_list, names) ==
    [k \in 1..Len(ProviderRows(provider_list)) |->
        ProviderRows(provider_list)[k].Provider_ID]

(* provider_list[provider_list["Name"].isin(names)]["Provider_ID"].tolist() *)
ProvIds(provider_list, names) ==
    LET rows == SelectSeq(ProviderRows(provider_list),
                          LAMBDA r : r.Name \in Range(names))
    IN  [k \in 1..Len(rows) |-> rows[k].Provider_ID]

(* One optional fragment "col IN (?,...)" and the values it binds *)
Clause(col, values) == IF values = <<>> THEN <<>> ELSE <<TokIn(col, Len(values))>>

TextParams(values) == [k \in 1..Len(values) |-> TextParam(values[k])]
IntParams(values) == [k \in 1..Len(values) |-> IntParam(values[k])]

(* where_clauses, in the order the four if-blocks append them *)
WhereClauses(sb, provider_list) ==
    Clause("Location", sb.city_filter)
    \o (IF sb.provider_filter_name # <<>>
        THEN Clause("Provider_ID", ProvIds(provider_list, sb.provider_filter_name))
        ELSE <<>>)
    \o Clause("Food_Type", sb.food_type_filter)
    \o Clause("Meal_Type", sb.meal_type_filter)

(* params, extended by the same four if-blocks *)
Params(sb, provider_list) ==
    TextParams(sb.city_filter)
    \o (IF sb.provider_filter_name # <<>>
        THEN IntParams(ProvIds(provider_list, sb.provider_filter_name))
        ELSE <<>>)
    \o TextParams(sb.food_type_filter)
    \o TextParams(sb.meal_type_filter)

(* ' AND '.join(where_clauses) *)
RECURSIVE JoinAnd(_)
JoinAnd(clauses) ==
    IF Len(clauses) <= 1 THEN clauses
    ELSE <<Head(clauses), TokAnd>> \o JoinAnd(Tail(clauses))

(* WHERE = f"WHERE {' AND '.join(where_clauses)}" if where_clauses else "" *)
WhereText(where_clauses) ==
    IF where_clauses = <<>> THEN <<>> ELSE <<TokWhere>> \o JoinAnd(where_clauses)

NoSelection == [city_filter |-> <<>>, provider_filter_name |-> <<>>,
                food_type_filter |-> <<>>, meal_type_filter |-> <<>>]

NoView == [WHERE |-> <<>>, params |-> <<>>, food_df |-> {}, shown |-> FALSE,
           now |-> 0, expiring_text |-> <<>>, expiring_params |-> <<>>,
           df_expiring_3 |-> {}, expiring_at |-> 0]

(* A connective that is ' WHERE ' whatever the predicate *)
ExpiringConnectiveAlwaysWhere(WHERE) == TokWhere

(* (' AND ' if WHERE else ' WHERE ') *)
ExpiringConnective(WHERE) == IF WHERE # <<>> THEN TokAnd ELSE TokWhere

(* The predicate of the "Expiring <= 3 days" query: the filter predicate,
   the connective and the window condition when WHERE is not empty, and the
   fixed text "WHERE julianday(...) <= 3" otherwise. *)
ExpiringText(WHERE) ==
    IF WHERE # <<>>
    THEN WHERE \o <<ExpiringConnective(WHERE), TokWindow>>
    ELSE <<TokWhere, TokWindow>>

(* params with the filtered text, fetch_df's default () with the fixed one *)
ExpiringParams(WHERE, params) == IF WHERE # <<>> THEN params ELSE <<>>

(* One run of the script down to the dashboard's base view: the provider
   list, the predicate and its parameters, the expiry KPI, then food_df.
   A query the engine rejects ends the run where it is raised. *)
Dashboard ==
    LET provider_list == fetch_df(cache, FixedKey(SQL_PROVS), clock)
        WHERE == WhereText(WhereClauses(sidebar, provider_list.df))
        params == Params(sidebar, provider_list.df)
        df_expiring_3 == fetch_df(provider_list.cache,
                                  QueryKey(SQL_EXPIRING_3, ExpiringText(WHERE),
                                           ExpiringParams(WHERE, params)),
                                  clock)
        food_df == fetch_df(df_expiring_3.cache,
                            QueryKey(SQL_FOOD_DF, WHERE, params), clock)
        kpi == [WHERE |-> WHERE, params |-> params, now |-> clock,
                expiring_text |-> ExpiringText(WHERE),
                expiring_params |-> ExpiringParams(WHERE, params),
                df_expiring_3 |-> df_expiring_3.df,
                expiring_at |-> df_expiring_3.at]
    IN  /\ IF df_expiring_3.df = OperationalError
           THEN /\ view' = kpi @@ [food_df |-> {}, shown |-> FALSE]
                /\ cache' = provider_list.cache
                /\ last' = Report("Dashboard", "error", 0, NoArg)
           ELSE /\ view' = kpi @@ [food_df |-> food_df.df, shown |-> TRUE]
                /\ cache' = food_df.cache
                /\ last' = Report("Dashboard", "success", 0, NoArg)
        /\ UNCHANGED <<store, clock, sidebar>>

-----------------------------------------------------------------------------
(* Reads of the query browser and the passing of time *)

(* df = fetch_df(QUERIES[qname]) and the other direct reads of a frame *)
ReadQuery(sqls) ==
    \E sql \in sqls :
        LET r == fetch_df(cache, FixedKey(sql), clock)
        IN  /\ cache' = r.cache
            /\ last' = Report("fetch_df", "success", 0,
                              [key |-> FixedKey(sql), df |-> r.df,
                               at |-> r.at, hit |-> r.hit,
                               was |-> {e \in last.dropped :
                                            e.key = FixedKey(sql)}])
            /\ UNCHANGED <<store, clock, sidebar, view>>

(* The wall clock moves on between two script runs *)
Tick ==
    /\ clock < MaxTicks * TickStep
    /\ clock' = clock + TickStep
    /\ UNCHANGED <<store, cache, sidebar, view, last>>

-----------------------------------------------------------------------------
(* The store the app is started on, and the single-session specification *)

ReceiverNames == <<"Food Bank", "Shelter">>

ReceiverRows(n) ==
    {[Receiver_ID |-> i, Name |-> ReceiverNames[((i - 1) % 2) + 1],
      City |-> "Springfield"] : i \in 1..n}

Statuses == {"Pending", "Completed", "Cancelled"}

(* What the user types and picks in the forms of the CRUD tab, and the
   largest key each table hands out *)
CrudInputs ==
    [name |-> {"", "Acme Grocers"}, ptype |-> {"Grocery Store"},
     address |-> {"12 Main St"}, city |-> {"", "Springfield"},
     contact |-> {"555-0100"},
     food_name |-> {"", "Bread"}, qty |-> {4}, exp |-> {0},
     provider_type |-> {""}, location |-> {"", "Springfield"},
     ftype |-> {"Vegetarian"}, mtype |-> {"Breakfast"},
     status |-> {"Pending"},
     new_contact |-> {"555-0199"}, new_qty |-> {21},
     new_status |-> {"Cancelled"},
     max_providers |-> MaxProviders, max_food |-> MaxFood,
     max_claims |-> MaxClaims]

Init ==
    /\ providers = {}
    /\ receivers \in {ReceiverRows(n) : n \in 0..MaxReceivers}
    /\ food_listings = {}
    /\ claims = {}
    /\ cache = {}
    /\ clock = 0
    /\ sidebar = NoSelection
    /\ view = NoView
    /\ last = Report("start", "none", 0, NoArg)

Next ==
    \/ AddProvider(CrudInputs)
    \/ AddFoodListing(CrudInputs)
    \/ AddClaim(CrudInputs)
    \/ UpdateContact(CrudInputs)
    \/ UpdateQuantity(CrudInputs)
    \/ UpdateStatus(CrudInputs)
    \/ DeleteProvider
    \/ DeleteFoodListing
    \/ DeleteClaim

Spec == Init /\ [][Next]_vars

-----------------------------------------------------------------------------
(* One session with reads of the query browser and a moving clock *)

SessionInputs ==
    [name |-> {"Acme Grocers"}, ptype |-> {"Grocery Store"},
     address |-> {"12 Main St"}, city |-> {"Springfield"},
     contact |-> {"555-0100"},
     food_name |-> {"Bread"}, qty |-> {4}, exp |-> {0},
     provider_type |-> {""}, location |-> {"Springfield"},
     ftype |-> {"Vegetarian"}, mtype |-> {"Breakfast"},
     status |-> {"Pending"},
     new_contact |-> {"555-0199"}, new_qty |-> {21},
     new_status |-> {"Completed"},
     max_providers |-> MaxSessionRows, max_food |-> MaxSessionRows,
     max_claims |-> MaxSessionRows]

BrowsedQueries == {SQL_Q9, SQL_PROVS_CONTACT}

NextSession ==
    \/ AddProvider(SessionInputs)
    \/ AddFoodListing(SessionInputs)
    \/ AddClaim(SessionInputs)
    \/ UpdateContact(SessionInputs)
    \/ UpdateQuantity(SessionInputs)
    \/ UpdateStatus(SessionInputs)
    \/ DeleteProvider
    \/ DeleteFoodListing
    \/ DeleteClaim
    \/ ReadQuery(BrowsedQueries)
    \/ Tick

SpecSession == Init /\ [][NextSession]_vars

-----------------------------------------------------------------------------
(* Creation of food listings over the range of quantities, expiry dates and
   times of day *)

FoodInputs ==
    [name |-> {"Acme Grocers"}, ptype |-> {"Grocery Store"},
     address |-> {"12 Main St"}, city |-> {"Springfield"},
     contact |-> {"555-0100"},
     food_name |-> {"Bread"}, qty |-> {1, 3, 4, 5, 10, 20, 21, 25},
     exp |-> {-1, 0, 1, 2},
     provider_type |-> {""}, location |-> {"Springfield"},
     ftype |-> {"Vegetarian"}, mtype |-> {"Breakfast"},
     status |-> {"Pending"},
     new_contact |-> {"555-0199"}, new_qty |-> {21},
     new_status |-> {"Completed"},
     max_providers |-> MaxSessionRows, max_food |-> MaxSessionRows,
     max_claims |-> MaxSessionRows]

NextFood ==
    \/ AddProvider(FoodInputs)
    \/ AddFoodListing(FoodInputs)
    \/ DeleteFoodListing
    \/ Tick

SpecFood == Init /\ [][NextFood]_vars

-----------------------------------------------------------------------------
(* The dashboard's filtered view over populated stores and sidebar
   selections *)

Cities == <<"Springfield", "Shelbyville">>
FoodTypes == <<"Vegetarian", "Non-Vegetarian", "Vegan", "Other">>
MealTypes == <<"Breakfast", "Lunch", "Dinner", "Snacks", "Other">>

(* The listing Add Food Listing stores at instant 0 for the k-th combination
   of city, provider, food type and meal type *)
FilterRow(id, k) ==
    [Food_ID |-> id, Food_Name |-> "Bread", Quantity |-> 10,
     Expiry_Date |-> 0, Provider_ID |-> ((k \div 4) % 2) + 1,
     Provider_Type |-> "", Location |-> Cities[((k \div 8) % 2) + 1],
     Food_Type |-> FoodTypes[((k \div 2) % 2) + 1],
     Meal_Type |-> MealTypes[(k % 2) + 1],
     Days_To_Expiry |-> DaysToExpiry(0, 0),
     Quantity_Category |-> QuantityCategory(10)]

FilterProviders(names) ==
    {[Provider_ID |-> i, Name |-> names[i], Type |-> "Grocery Store",
      Address |-> "12 Main St", City |-> "Springfield",
      Contact |-> "555-0100"] : i \in DOMAIN names}

(* st.sidebar.multiselect: the picked options, in the order picked *)
Picks(options) ==
    {<<>>} \cup {<<a>> : a \in options}
           \cup {s \in options \X options : s[1] # s[2]}

InitFilter ==
    /\ providers \in {FilterProviders(names) :
                        names \in [1..2 -> Range(NameOrder)]}
    /\ receivers = ReceiverRows(MaxReceivers)
    /\ \E n \in 0..MaxFilterRows :
          \E a \in [1..n -> 0..15] :
             /\ \A i \in 1..(n - 1) : a[i] <= a[i + 1]
             /\ food_listings = {FilterRow(i, a[i]) : i \in 1..n}
    /\ claims = {}
    /\ cache = {}
    /\ clock = 0
    /\ sidebar \in
         [city_filter : Picks({f.Location : f \in food_listings}),
          provider_filter_name : Picks({p.Name : p \in providers}),
          food_type_filter : Picks({f.Food_Type : f \in food_listings}),
          meal_type_filter : Picks({f.Meal_Type : f \in food_listings})]
    /\ view = NoView
    /\ last = Report("start", "none", 0, NoArg)

NextFilter == Dashboard

SpecFilter == InitFilter /\ [][NextFilter]_vars

-----------------------------------------------------------------------------
(* The dashboard's expiry KPI over populated stores, sidebar selections and
   the instants around a midnight *)

ExpiryDates == {WindowDays, WindowDays + 1}

(* The combinations of city and provider, the food type being Vegetarian
   and the meal type Breakfast *)
ExpiringCombos == {4 * j : j \in 0..3}

(* The listing Add Food Listing stores at the start instant for a
   combination and an expiry date *)
ExpiringRow(id, a) ==
    [FilterRow(id, a[1]) EXCEPT !.Expiry_Date = a[2],
                                !.Days_To_Expiry = DaysToExpiry(a[2], -TickStep)]

(* The store holds listings that expire three and four days after day 0,
   and the session starts one clock step before the midnight of day 0. *)
InitExpiring ==
    /\ providers = FilterProviders(NameOrder)
    /\ receivers = ReceiverRows(MaxReceivers)
    /\ \E n \in 0..MaxExpiringRows :
          \E a \in [1..n -> ExpiringCombos \X ExpiryDates] :
             /\ \A i \in 1..(n - 1) : a[i][1] <= a[i + 1][1]
             /\ food_listings = {ExpiringRow(i, a[i]) : i \in 1..n}
    /\ claims = {}
    /\ cache = {}
    /\ clock = -TickStep
    /\ sidebar \in
         [city_filter : Picks({f.Location : f \in food_listings}),
          provider_filter_name : Picks({p.Name : p \in providers}),
          food_type_filter : Picks({f.Food_Type : f \in food_listings}),
          meal_type_filter : Picks({f.Meal_Type : f \in food_listings})]
    /\ view = NoView
    /\ last = Report("start", "none", 0, NoArg)

NextExpiring ==
    \/ Dashboard
    \/ Tick

SpecExpiring == InitExpiring /\ [][NextExpiring]_vars

-----------------------------------------------------------------------------
(* Query 10 of the query browser over populated stores *)

RateStatuses == {"Pending", "Completed"}

RateProviders(n) ==
    {[Provider_ID |-> i, Name |-> NameOrder[((i - 1) % 2) + 1],
      Type |-> "Grocery Store", Address |-> "12 Main St",
      City |-> "Springfield", Contact |-> "555-0100"] : i \in 1..n}

RateFood(id, pid) == [FilterRow(id, 0) EXCEPT !.Provider_ID = pid]

RateClaim(id, ref) ==
    [Claim_ID |-> id, Food_ID |-> ref[1], Receiver_ID |-> 1, Status |-> ref[2]]

(* The database file the app is opened on: any rows under the primary keys;
   the references are not enforced, and a listing may carry several claims. *)
InitRates ==
    /\ providers \in {RateProviders(n) : n \in 0..MaxRateRows}
    /\ receivers = ReceiverRows(MaxReceivers)
    /\ \E ids \in SUBSET (1..MaxRateRows) :
          \E owner \in [ids -> 1..MaxRateRows] :
             food_listings = {RateFood(i, owner[i]) : i \in ids}
    /\ \E ids \in SUBSET (1..MaxRateRows) :
          \E ref \in [ids -> (1..MaxRateRows) \X RateStatuses] :
             claims = {RateClaim(i, ref[i]) : i \in ids}
    /\ cache = {}
    /\ clock = 0
    /\ sidebar = NoSelection
    /\ view = NoView
    /\ last = Report("start", "none", 0, NoArg)

RateQueries == {SQL_Q10}

NextRates == ReadQuery(RateQueries)

SpecRates == InitRates /\ [][NextRates]_vars

-----------------------------------------------------------------------------
(* Properties *)

RowsOf(rows, idcol, id) == {r \in rows : r[idcol] = id}

ClaimsOn(fid) == {c \in claims : c.Food_ID = fid}

(* C1: within one session, a read through fetch_df returns what its query
   yields on the store as it is now, and the read that follows a successful
   write never returns an entry memoized before that write, however young
   the entry is. *)
C1_ReadAfterWriteIsFresh ==
    last.op = "fetch_df" =>
        /\ last.arg.df = EvalQuery(last.arg.key.sql, last.arg.key.where,
                                   last.arg.key.params)
        /\ last.arg.was # {} => ~last.arg.hit

(* A read at most TTL seconds after the memoization of an entry of its key
   that a write has since dropped, returning another frame than that entry *)
C1_Witness ==
    /\ last.op = "fetch_df"
    /\ \E e \in last.arg.was :
          /\ e.at < last.arg.at
          /\ last.arg.at - e.at < TTL
          /\ e.df # last.arg.df

(* C2: Delete Provider on a provider that owns a listing reports an error and
   leaves the provider and its listings in place. *)
C2_DeleteOwningProviderFails ==
    (last.op = "DeleteProvider" /\ last.arg.listings # {}) =>
        /\ last.outcome = "error"
        /\ RowsOf(providers, "Provider_ID", last.id) # {}
        /\ last.arg.listings \subseteq food_listings

UnclaimedIds ==
    {f.Food_ID : f \in {g \in food_listings :
                            \A c \in claims : c.Food_ID # g.Food_ID}}

Q9Ids == {r.Food_ID : r \in EvalQuery(SQL_Q9, <<>>, <<>>)}

(* C4: query 9 returns exactly the listings whose Food_ID no claim row
   carries; a listing just created is in its result, and a listing that has
   just been claimed is not. *)
C4_Query9IsTheUnclaimedListings ==
    /\ Q9Ids = UnclaimedIds
    /\ (last.op = "fetch_df" /\ last.arg.key.sql = SQL_Q9) =>
          {r.Food_ID : r \in last.arg.df} = UnclaimedIds
    /\ (last.op = "AddFood" /\ last.outcome = "success") => last.id \in Q9Ids
    /\ (last.op = "AddClaim" /\ last.outcome = "success") =>
          last.arg.food_id \notin Q9Ids

(* The listing the latest successful Add Food Listing stored *)
CreatedFood == CHOOSE f \in food_listings : f.Food_ID = last.id

FoodCreated == last.op = "AddFood" /\ last.outcome = "success"

(* C9: the stored Quantity is the quantity entered and the stored
   Quantity_Category is Small below 5, Medium from 5 to 20, Large above 20. *)
C9_QuantityCategoryBuckets ==
    FoodCreated =>
        LET q == last.arg.qty
            f == CreatedFood
        IN  /\ f.Quantity = q
            /\ q < 5 => f.Quantity_Category = "Small"
            /\ (5 <= q /\ q <= 20) => f.Quantity_Category = "Medium"
            /\ q > 20 => f.Quantity_Category = "Large"
            /\ q = 3 => f.Quantity_Category = "Small"
            /\ q \in {5, 10, 20} => f.Quantity_Category = "Medium"
            /\ q = 25 => f.Quantity_Category = "Large"

(* A listing created with the quantity 20, the upper end of Medium *)
C9_Witness ==
    /\ FoodCreated
    /\ last.arg.qty = 20
    /\ CreatedFood.Quantity_Category = "Medium"

(* C10: the stored Days_To_Expiry is the expiry date minus the creation
   date in calendar days, whatever the time of day of the creation. *)
C10_DaysToExpiryIsDateDifference ==
    FoodCreated =>
        CreatedFood.Days_To_Expiry = last.arg.exp - Today(last.arg.now)

(* A step that is the operation op: it leaves a new report of op *)
Did(op) == last' # last /\ last'.op = op

(* C6: a create whose required field is blank (a provider without name or
   city, a listing without provider, food name or location, a claim without
   food item or receiver) reports an error and changes no table. *)
C6_BlankCreateWritesNothing ==
    [][/\ (Did("AddProvider")
            /\ (last'.arg.name = "" \/ last'.arg.city = ""))
          => (last'.outcome = "error" /\ store' = store)
       /\ (Did("AddFood")
            /\ (\/ last'.arg.provider_id = 0
                \/ last'.arg.food_name = ""
                \/ last'.arg.location = ""))
          => (last'.outcome = "error" /\ store' = store)
       /\ (Did("AddClaim")
            /\ (last'.arg.food_id = 0 \/ last'.arg.receiver_id = 0))
          => (last'.outcome = "error" /\ store' = store)]_vars

(* A listing refused for its blank location alone, on a store that already
   holds a listing *)
C6_Witness ==
    /\ last.op = "AddFood"
    /\ last.outcome = "error"
    /\ last.arg.provider_id # 0
    /\ last.arg.food_name # ""
    /\ last.arg.location = ""
    /\ food_listings # {}

(* C7: Delete Food Listing always succeeds, removes the one listing of the
   chosen Food_ID and leaves the claims as they are, those on that listing
   included; Delete Claim always succeeds and removes the one claim of the
   chosen Claim_ID. *)
C7_DeleteListingAndClaim ==
    [][/\ Did("DeleteFood") =>
            /\ last'.outcome = "success"
            /\ Cardinality(RowsOf(food_listings, "Food_ID", last'.id)) = 1
            /\ food_listings' =
                 food_listings \ RowsOf(food_listings, "Food_ID", last'.id)
            /\ claims' = claims
            /\ providers' = providers /\ receivers' = receivers
       /\ Did("DeleteClaim") =>
            /\ last'.outcome = "success"
            /\ Cardinality(RowsOf(claims, "Claim_ID", last'.id)) = 1
            /\ claims' = claims \ RowsOf(claims, "Claim_ID", last'.id)
            /\ food_listings' = food_listings
            /\ providers' = providers /\ receivers' = receivers]_vars

(* A listing deleted while a claim names it: the claim stays, dangling *)
C7_Witness ==
    /\ last.op = "DeleteFood"
    /\ last.outcome = "success"
    /\ RowsOf(food_listings, "Food_ID", last.id) = {}
    /\ ClaimsOn(last.id) # {}
    /\ food_listings # {}

(* The row of rows' with the key of r *)
Same(rows, idcol, r) == RowsOf(rows, idcol, r[idcol])

(* C8: an update changes one field of the one row of the given key: Update
   Quantity the Quantity (Quantity_Category and Days_To_Expiry stay as
   stored), Update Contact the Contact, Update Status the Status; every
   other row and table is unchanged. *)
C8_UpdateChangesOneField ==
    [][/\ Did("UpdateQuantity") =>
            /\ \A f \in food_listings :
                  Same(food_listings', "Food_ID", f) =
                     {IF f.Food_ID = last'.id
                      THEN [Food_ID |-> f.Food_ID, Food_Name |-> f.Food_Name,
                            Quantity |-> last'.arg.new,
                            Expiry_Date |-> f.Expiry_Date,
                            Provider_ID |-> f.Provider_ID,
                            Provider_Type |-> f.Provider_Type,
                            Location |-> f.Location,
                            Food_Type |-> f.Food_Type,
                            Meal_Type |-> f.Meal_Type,
                            Days_To_Expiry |-> f.Days_To_Expiry,
                            Quantity_Category |-> f.Quantity_Category]
                      ELSE f}
            /\ Cardinality(food_listings') = Cardinality(food_listings)
            /\ RowsOf(food_listings, "Food_ID", last'.id) # {}
            /\ providers' = providers /\ claims' = claims
            /\ receivers' = receivers
       /\ Did("UpdateContact") =>
            /\ \A p \in providers :
                  Same(providers', "Provider_ID", p) =
                     {IF p.Provider_ID = last'.id
                      THEN [Provider_ID |-> p.Provider_ID, Name |-> p.Name,
                            Type |-> p.Type, Address |-> p.Address,
                            City |-> p.City, Contact |-> last'.arg.new]
                      ELSE p}
            /\ Cardinality(providers') = Cardinality(providers)
            /\ RowsOf(providers, "Provider_ID", last'.id) # {}
            /\ food_listings' = food_listings /\ claims' = claims
            /\ receivers' = receivers
       /\ Did("UpdateStatus") =>
            /\ \A c \in claims :
                  Same(claims', "Claim_ID", c) =
                     {IF c.Claim_ID = last'.id
                      THEN [Claim_ID |-> c.Claim_ID, Food_ID |-> c.Food_ID,
                            Receiver_ID |-> c.Receiver_ID,
                            Status |-> last'.arg.new]
                      ELSE c}
            /\ Cardinality(claims') = Cardinality(claims)
            /\ RowsOf(claims, "Claim_ID", last'.id) # {}
            /\ providers' = providers /\ food_listings' = food_listings
            /\ receivers' = receivers]_vars

(* A quantity updated into another size bucket than the stored category,
   with a second listing beside it *)
C8_Witness ==
    /\ last.op = "UpdateQuantity"
    /\ Cardinality(food_listings) = 2
    /\ \E f \in food_listings :
          /\ f.Food_ID = last.id
          /\ f.Quantity = last.arg.new
          /\ f.Quantity_Category = "Small"
          /\ f.Quantity > 20

(* C5: the filtered listings are exactly those that, for every dimension
   with a selection, have that dimension's value among the selected ones
   (a provider name standing for the providers of that name); a dimension
   without selection excludes nothing, and without any selection the
   predicate text is empty and every listing is returned. *)
C5_FilteredViewIsTheSelection ==
    view.shown =>
        LET picked_ids ==
                {p.Provider_ID : p \in {q \in providers :
                    q.Name \in Range(sidebar.provider_filter_name)}}
        IN  /\ view.food_df =
                 {f \in food_listings :
                    /\ sidebar.city_filter # <<>> =>
                          f.Location \in Range(sidebar.city_filter)
                    /\ sidebar.provider_filter_name # <<>> =>
                          f.Provider_ID \in picked_ids
                    /\ sidebar.food_type_filter # <<>> =>
                          f.Food_Type \in Range(sidebar.food_type_filter)
                    /\ sidebar.meal_type_filter # <<>> =>
                          f.Meal_Type \in Range(sidebar.meal_type_filter)}
            /\ sidebar = NoSelection =>
                  (view.WHERE = <<>> /\ view.food_df = food_listings)

(* All four dimensions selected, keeping some listings and excluding others *)
C5_Witness ==
    /\ view.shown
    /\ sidebar.city_filter # <<>>
    /\ sidebar.provider_filter_name # <<>>
    /\ sidebar.food_type_filter # <<>>
    /\ sidebar.meal_type_filter # <<>>
    /\ view.food_df # {}
    /\ view.food_df # food_listings

(* The listings a provider owns and the completed claims on them *)
OwnedBy(p) == {f \in food_listings : f.Provider_ID = p.Provider_ID}

CompletedOn(foods) ==
    {c \in claims : c.Status = "Completed"
                      /\ \E f \in foods : f.Food_ID = c.Food_ID}

ReadQ10 == last.op = "fetch_df" /\ last.arg.key = FixedKey(SQL_Q10)

(* C11: query 10 returns a frame and never an error; a provider that owns
   listings has exactly one row, and its Fulfillment_Rate is the hundredth
   nearest to 100 x (completed claims on its listings) / (distinct listings
   it owns); a provider with zero listings has no rate: no row of it carries
   a number. *)
C11_FulfillmentRate ==
    ReadQ10 =>
        /\ last.outcome = "success"
        /\ \A r \in last.arg.df :
              \E p \in providers : p.Provider_ID = r.Provider_ID
        /\ \A p \in providers :
              LET rows == {r \in last.arg.df : r.Provider_ID = p.Provider_ID}
                  n == Cardinality(OwnedBy(p))
                  s == Cardinality(CompletedOn(OwnedBy(p)))
              IN  IF n = 0
                  THEN \A r \in rows : r.Fulfillment_Rate.null
                  ELSE /\ Cardinality(rows) = 1
                       /\ \A r \in rows :
                             /\ r.Name = p.Name
                             /\ ~r.Fulfillment_Rate.null
                             /\ 2 * n * r.Fulfillment_Rate.x - n
                                    <= 2 * 100 * 100 * s
                             /\ 2 * 100 * 100 * s
                                    < 2 * n * r.Fulfillment_Rate.x + n

(* Query 10 read on a store where one provider has no listing and another
   has a completed and an open claim on its two listings: a rate of 50.00 *)
C11_Witness ==
    /\ ReadQ10
    /\ \E p \in providers : OwnedBy(p) = {}
    /\ \E r \in last.arg.df :
          /\ ~r.Fulfillment_Rate.null
          /\ r.Fulfillment_Rate.x = 50 * 100
    /\ \E c \in claims : c.Status = "Pending"
                          /\ \E f \in food_listings : f.Food_ID = c.Food_ID

(* A listing passes the sidebar's selections: in every dimension with a
   selection its value is a selected one *)
PassesSelection(f) ==
    /\ sidebar.city_filter # <<>> => f.Location \in Range(sidebar.city_filter)
    /\ sidebar.provider_filter_name # <<>> =>
          \E p \in providers : /\ p.Provider_ID = f.Provider_ID
                               /\ p.Name \in Range(sidebar.provider_filter_name)
    /\ sidebar.food_type_filter # <<>> =>
          f.Food_Type \in Range(sidebar.food_type_filter)
    /\ sidebar.meal_type_filter # <<>> =>
          f.Meal_Type \in Range(sidebar.meal_type_filter)

(* Midnight of the expiry date is at most WindowDays days after the instant *)
ExpiresWithinWindow(f, instant) ==
    f.Expiry_Date * SecondsPerDay - instant <= WindowDays * SecondsPerDay

(* C12: in every run of the dashboard, whatever the selections, the
   "Expiring <= 3 days" query is the expiry-window condition after WHERE
   when the filter predicate is empty, and the filter predicate, AND and the
   condition when it is not; it is issued with exactly the filter's ordered
   parameters; and its single row counts exactly the listings that pass all
   selected filters and expire at most 3 days after the instant the query
   ran on the store, which is the instant of the run or, for a memoized
   frame, less than TTL seconds before it. *)
C12_ExpiringCountsFilteredWindow ==
    (view # NoView) =>
        /\ view.shown
        /\ view.expiring_text =
              (IF view.WHERE = <<>> THEN <<TokWhere, TokWindow>>
               ELSE view.WHERE \o <<TokAnd, TokWindow>>)
        /\ view.expiring_params = view.params
        /\ (sidebar = NoSelection) =>
              (view.WHERE = <<>> /\ view.expiring_params = <<>>)
        /\ view.df_expiring_3 =
              {[n |-> Cardinality({f \in food_listings :
                                     /\ PassesSelection(f)
                                     /\ ExpiresWithinWindow(f, view.expiring_at)})]}
        /\ view.expiring_at <= view.now
        /\ view.now - view.expiring_at < TTL

(* Two dimensions selected, the provider one among them; two listings pass
   the selections, one expires within the window and the other does not. *)
C12_Witness ==
    /\ view.shown
    /\ sidebar.provider_filter_name # <<>>
    /\ sidebar.city_filter # <<>>
    /\ Len(view.expiring_params) >= 3
    /\ view.df_expiring_3 = {[n |-> 1]}
    /\ Cardinality({f \in food_listings : PassesSelection(f)}) = 2

====
